---- MODULE Spec2Model ----
(***************************************************************************)
(* Model of the statistical-process-control rule engine of spc:            *)
(*   src/utils.py  sliding_window, is_cycle                                *)
(*   src/rules.py  the Rule classes and the default rule list `rules`      *)
(*   src/app.py    the loop that runs every rule and concatenates issues   *)
(*                                                                         *)
(* Indices are 0-based as in the Python source; At(arr, i) reads arr[i].   *)
(* Samples, mean and std are integers; the only fraction of the source,    *)
(* near = 0.25, is handled by multiplying both sides of its comparisons    *)
(* by 4.                                                                   *)
(***************************************************************************)
EXTENDS Integers, Sequences, FiniteSets, TLC

VARIABLES data, mean, std, pc, fn, self, window_size, start,
          wins, cyc, issues, rule_i

vars == <<data, mean, std, pc, fn, self, window_size, start,
          wins, cyc, issues, rule_i>>

(***************************************************************************)
(* Bounds of the model.                                                    *)
(***************************************************************************)
MaxLen == 6
MaxWindow == 7
MaxStart == 2

UtilValues == {0, 1, 2}

SeqsUpTo(V, n) == UNION {[1..k -> V] : k \in 0..n}

(***************************************************************************)
(* Python values and list primitives.                                      *)
(***************************************************************************)
At(arr, i) == arr[i + 1]

MinInt(a, b) == IF a < b THEN a ELSE b

\* arr[lo:hi] for 0 <= lo, 0 <= hi: Python clamps the slice to the list.
Slice(arr, lo, hi) == SubSeq(arr, lo + 1, MinInt(hi, Len(arr)))

\* A returned Python value that is either a bool or a tuple.
\* For a tuple, val is its first element and len its length.
PyBool(b) == [type |-> "bool", val |-> b, len |-> 0]
PyTuple2(first) == [type |-> "tuple", val |-> first, len |-> 2]

\* Truth value of a Python object in `if x:` -- a bool is itself,
\* a tuple is true iff it is non-empty.
Truthy(v) == IF v.type = "bool" THEN v.val ELSE v.len > 0

(***************************************************************************)
(* src/utils.py                                                            *)
(***************************************************************************)
\* faulty variant: the last window is dropped
RangeStop_offbyone(arr, w) == Len(arr) - w

\* the argument of range() at utils.py:11
RangeStop(arr, w) == Len(arr) - w + 1

RECURSIVE sliding_window_loop(_, _, _, _)
sliding_window_loop(arr, w, idx, stop) ==
    IF idx >= stop
    THEN <<>>
    ELSE <<Slice(arr, idx, idx + w)>> \o sliding_window_loop(arr, w, idx + 1, stop)

\* The list of the windows the generator yields, in yield order.
\* The parameter st (start) is accepted and never read, as in the source.
sliding_window(arr, w, st) == sliding_window_loop(arr, w, 0, RangeStop(arr, w))

\* faulty variant: a tie counts as a downward step
step_dir_tiedown(a, b) == b - a > 0

\* `False if arr[idx+1] - arr[idx] < 0 else True`
step_dir(a, b) == IF b - a < 0 THEN FALSE ELSE TRUE

RECURSIVE is_cycle_loop(_, _, _)
is_cycle_loop(arr, idx, is_increasing) ==
    IF idx >= Len(arr) - 1
    THEN TRUE
    ELSE LET next_step == step_dir(At(arr, idx), At(arr, idx + 1))
         IN  IF is_increasing = next_step
             THEN FALSE
             ELSE is_cycle_loop(arr, idx + 1, next_step)

is_cycle(arr) ==
    IF Len(arr) < 4
    THEN PyTuple2(FALSE)
    ELSE PyBool(is_cycle_loop(arr, 1, step_dir(At(arr, 0), At(arr, 1))))

(***************************************************************************)
(* src/rules.py                                                            *)
(***************************************************************************)
RECURSIVE SumSeq(_)
SumSeq(s) == IF s = <<>> THEN 0 ELSE Head(s) + SumSeq(Tail(s))

\* max(window) and min(window) of a non-empty list
Max(window) == CHOOSE m \in {window[j] : j \in DOMAIN window} :
                  \A j \in DOMAIN window : m >= window[j]
Min(window) == CHOOSE m \in {window[j] : j \in DOMAIN window} :
                  \A j \in DOMAIN window : m <= window[j]

\* sorted(window) / sorted(window, reverse=True), by insertion
RECURSIVE insert_sorted(_, _, _)
insert_sorted(s, x, reverse) ==
    IF s = <<>>
    THEN <<x>>
    ELSE IF (IF reverse THEN x > Head(s) ELSE x < Head(s))
         THEN <<x>> \o s
         ELSE <<Head(s)>> \o insert_sorted(Tail(s), x, reverse)

RECURSIVE sorted(_, _)
sorted(window, reverse) ==
    IF window = <<>>
    THEN <<>>
    ELSE insert_sorted(sorted(SubSeq(window, 1, Len(window) - 1), reverse),
                       window[Len(window)], reverse)

\* The body shared by the loops `for idx, x in enumerate(...)` that append
\* (type(self).__name__, idx + 1) when the test on x holds.  flags[idx + 1]
\* is the value of the test for the element with index idx.
RECURSIVE append_flagged(_, _, _, _)
append_flagged(cls, flags, idx, acc) ==
    IF idx >= Len(flags)
    THEN acc
    ELSE append_flagged(cls, flags, idx + 1,
                        IF At(flags, idx) THEN Append(acc, <<cls, idx + 1>>) ELSE acc)

\* ----- LimitRule and its three subclasses -----
LimitRule(cls, sigmas, w, fail_count) ==
    [cls |-> cls, sigmas |-> sigmas, window_size |-> w, fail_count |-> fail_count]

ControlLimitRule == LimitRule("ControlLimitRule", 3, 1, 1)
WarningLimitRule == LimitRule("WarningLimitRule", 2, 3, 2)
ZoneCLimitRule == LimitRule("ZoneCLimitRule", 1, 5, 4)

PlainRule(cls) == [cls |-> cls, sigmas |-> 0, window_size |-> 0, fail_count |-> 0]

SingleSideConsecutiveRule == PlainRule("SingleSideConsecutiveRule")
RunRule == PlainRule("RunRule")
CycleRule == PlainRule("CycleRule")
ZoneCCycleRule == PlainRule("ZoneCCycleRule")
MissingZoneCRule == PlainRule("MissingZoneCRule")
NearLimitRule == PlainRule("NearLimitRule")

LimitClasses == {"ControlLimitRule", "WarningLimitRule", "ZoneCLimitRule", "LimitRule"}

\* faulty variant: the limit is not scaled by std
upper_limit_nostd(m, sigmas, sd) == m + sigmas

upper_limit(m, sigmas, sd) == m + (sigmas * sd)
lower_limit(m, sigmas, sd) == m - (sigmas * sd)

\* faulty variant: the two counts are summed
limit_test_summed(count_above, count_below, fail_count) ==
    count_above + count_below >= fail_count

limit_test(count_above, count_below, fail_count) ==
    count_above >= fail_count \/ count_below >= fail_count

LimitRule_run(slf, d, m, sd) ==
    LET upper == upper_limit(m, slf.sigmas, sd)
        lower == lower_limit(m, slf.sigmas, sd)
        windows == sliding_window(d, slf.window_size, 0)
        count_above(window) ==
            SumSeq([j \in 1..Len(window) |-> IF window[j] > upper THEN 1 ELSE 0])
        count_below(window) ==
            SumSeq([j \in 1..Len(window) |-> IF window[j] < lower THEN 1 ELSE 0])
        flags == [i \in 1..Len(windows) |->
                    limit_test(count_above(windows[i]), count_below(windows[i]),
                               slf.fail_count)]
    IN  append_flagged(slf.cls, flags, 0, <<>>)

\* ----- SingleSideConsecutiveRule -----
SingleSideConsecutiveRule_run(slf, d, m, sd) ==
    LET windows == sliding_window(d, 8, 0)
        flags == [i \in 1..Len(windows) |->
                    \/ (Max(windows[i]) > m /\ Min(windows[i]) > m)
                    \/ (Max(windows[i]) < m /\ Min(windows[i]) < m)]
    IN  append_flagged(slf.cls, flags, 0, <<>>)

\* ----- RunRule -----
\* faulty variant: only ascending runs match
run_test_asc_only(window) == window = sorted(window, FALSE)

run_test(window) == window = sorted(window, FALSE) \/ window = sorted(window, TRUE)

RunRule_run(slf, d, m, sd) ==
    LET windows == sliding_window(d, 6, 0)
        flags == [i \in 1..Len(windows) |-> run_test(windows[i])]
    IN  append_flagged(slf.cls, flags, 0, <<>>)

\* ----- CycleRule -----
\* last_cycle is <<>> for None and <<idx>> once set.
\* faulty variant: no overlap suppression
cycle_not_adjacent_never(last_cycle, idx) == TRUE

cycle_not_adjacent(last_cycle, idx) == last_cycle # <<idx - 1>>

RECURSIVE CycleRule_loop(_, _, _, _, _)
CycleRule_loop(cls, windows, idx, last_cycle, acc) ==
    IF idx >= Len(windows)
    THEN acc
    ELSE IF Truthy(is_cycle(At(windows, idx)))
         THEN CycleRule_loop(cls, windows, idx + 1, <<idx>>,
                             IF cycle_not_adjacent(last_cycle, idx)
                             THEN Append(acc, <<cls, idx + 1>>)
                             ELSE acc)
         ELSE CycleRule_loop(cls, windows, idx + 1, last_cycle, acc)

CycleRule_run(slf, d, m, sd) ==
    CycleRule_loop(slf.cls, sliding_window(d, 15, 0), 0, <<>>, <<>>)

\* ----- ZoneCCycleRule -----
ZoneCCycleRule_run(slf, d, m, sd) ==
    LET upper == m + sd
        lower == m - sd
        windows == sliding_window(d, 14, 0)
        flags == [i \in 1..Len(windows) |->
                    /\ Truthy(is_cycle(windows[i]))
                    /\ Min(windows[i]) > lower
                    /\ Max(windows[i]) < upper]
    IN  append_flagged(slf.cls, flags, 0, <<>>)

\* ----- MissingZoneCRule -----
RECURSIVE points_in_zone_c(_, _, _)
points_in_zone_c(points, m, sd) ==
    IF points = <<>>
    THEN FALSE
    ELSE IF Head(points) > m - sd /\ Head(points) < m + sd
         THEN TRUE
         ELSE points_in_zone_c(Tail(points), m, sd)

MissingZoneCRule_run(slf, d, m, sd) ==
    LET windows == sliding_window(d, 8, 0)
        flags == [i \in 1..Len(windows) |-> ~points_in_zone_c(windows[i], m, sd)]
    IN  append_flagged(slf.cls, flags, 0, <<>>)

\* ----- NearLimitRule -----
\* near = 0.25: `point > ucl - near * std` is 4 * point > 4 * ucl - std.
NearLimitRule_run(slf, d, m, sd) ==
    LET ucl == m + (3 * sd)
        lcl == m - (3 * sd)
        uwl == m + (2 * sd)
        lwl == m - (2 * sd)
        flags == [i \in 1..Len(d) |->
                    \/ (d[i] < ucl /\ 4 * d[i] > 4 * ucl - sd)
                    \/ (d[i] < uwl /\ 4 * d[i] > 4 * uwl - sd)
                    \/ (d[i] > lcl /\ 4 * d[i] < 4 * lcl + sd)
                    \/ (d[i] > lwl /\ 4 * d[i] < 4 * lwl + sd)]
    IN  append_flagged(slf.cls, flags, 0, <<>>)

\* rule.run(data, mean, std), dispatched on the class of the instance
Run(rule, d, m, sd) ==
    CASE rule.cls \in LimitClasses -> LimitRule_run(rule, d, m, sd)
      [] rule.cls = "SingleSideConsecutiveRule" -> SingleSideConsecutiveRule_run(rule, d, m, sd)
      [] rule.cls = "RunRule" -> RunRule_run(rule, d, m, sd)
      [] rule.cls = "CycleRule" -> CycleRule_run(rule, d, m, sd)
      [] rule.cls = "ZoneCCycleRule" -> ZoneCCycleRule_run(rule, d, m, sd)
      [] rule.cls = "MissingZoneCRule" -> MissingZoneCRule_run(rule, d, m, sd)
      [] rule.cls = "NearLimitRule" -> NearLimitRule_run(rule, d, m, sd)
      [] OTHER -> <<>>

\* the module-level list at the end of rules.py
rules == <<ControlLimitRule, WarningLimitRule, ZoneCLimitRule,
           SingleSideConsecutiveRule, RunRule, CycleRule, ZoneCCycleRule,
           MissingZoneCRule, MissingZoneCRule, NearLimitRule>>

(***************************************************************************)
(* State shared by all specifications.                                     *)
(***************************************************************************)
NoRule == [cls |-> "Rule", sigmas |-> 0, window_size |-> 0, fail_count |-> 0]

InitCommon ==
    /\ fn = "none"
    /\ self = NoRule
    /\ window_size = 0
    /\ start = 0
    /\ wins = <<>>
    /\ cyc = PyBool(FALSE)
    /\ issues = <<>>
    /\ rule_i = 0

(***************************************************************************)
(* SpecUtils: the two functions of utils.py applied to bounded inputs.     *)
(***************************************************************************)
InitUtils ==
    /\ data \in SeqsUpTo(UtilValues, MaxLen)
    /\ mean = 0
    /\ std = 0
    /\ pc = "start"
    /\ InitCommon

CallSlidingWindow ==
    /\ pc = "start"
    /\ \E w \in 1..MaxWindow, st \in 0..MaxStart :
          /\ window_size' = w
          /\ start' = st
          /\ wins' = sliding_window(data, w, st)
    /\ fn' = "sliding_window"
    /\ pc' = "returned"
    /\ UNCHANGED <<data, mean, std, self, cyc, issues, rule_i>>

CallIsCycle ==
    /\ pc = "start"
    /\ cyc' = is_cycle(data)
    /\ fn' = "is_cycle"
    /\ pc' = "returned"
    /\ UNCHANGED <<data, mean, std, self, window_size, start, wins, issues, rule_i>>

NextUtils == CallSlidingWindow \/ CallIsCycle

SpecUtils == InitUtils /\ [][NextUtils]_vars

Returned(f) == pc = "returned" /\ fn = f

MaxInt(a, b) == IF a > b THEN a ELSE b

\* C2: sliding_window(data, w) yields exactly max(0, n - w + 1) windows, in
\* increasing index order, each of length w, the window with index idx being
\* data[idx : idx + w]; w > n (empty data included) yields zero windows.
C2_WindowCoverage ==
    Returned("sliding_window") =>
        LET n == Len(data)
            w == window_size
        IN  /\ Len(wins) = MaxInt(0, n - w + 1)
            /\ \A idx \in 0..(Len(wins) - 1) :
                  /\ Len(At(wins, idx)) = w
                  /\ \A j \in 0..(w - 1) : At(At(wins, idx), j) = At(data, idx + j)
            /\ (w > n => wins = <<>>)

C2_Witness ==
    /\ Returned("sliding_window")
    /\ start = 0
    /\ window_size = 2
    /\ Len(data) = 4
    /\ Len(wins) = 3
    /\ At(wins, 2) = <<At(data, 2), At(data, 3)>>

\* C3: sliding_window(data, window_size, start) yields windows only for idx
\* from start on: for start > 0 the first window yielded is
\* data[start : start + window_size] and no window beginning before start
\* is yielded (so exactly max(0, n - window_size + 1 - start) windows).
C3_StartHonoured ==
    (Returned("sliding_window") /\ start > 0) =>
        /\ Len(wins) = MaxInt(0, Len(data) - window_size + 1 - start)
        /\ (wins # <<>> => At(wins, 0) = Slice(data, start, start + window_size))

\* C4: is_cycle on fewer than 4 points returns the boolean false and nothing
\* else, so a caller branching on the result takes the not-a-cycle branch.
C4_ShortIsFalse ==
    (Returned("is_cycle") /\ Len(data) < 4) =>
        /\ cyc.type = "bool"
        /\ cyc.val = FALSE
        /\ ~Truthy(cyc)

\* direction of the pair (data[i], data[i+1]): TRUE = non-decreasing
PairUp(arr, i) == At(arr, i + 1) >= At(arr, i)

Alternates(arr) == \A i \in 1..(Len(arr) - 2) : PairUp(arr, i) # PairUp(arr, i - 1)

\* C10: for at least 4 points is_cycle returns true iff every consecutive
\* pair's direction (non-decreasing, ties included, vs decreasing) differs
\* from the direction of the pair before it.
C10_Alternation ==
    (Returned("is_cycle") /\ Len(data) >= 4) =>
        /\ cyc.type = "bool"
        /\ cyc.val = Alternates(data)

\* a cycle whose first step is a tie, counted as an upward step
C10_Witness ==
    /\ Returned("is_cycle")
    /\ data = <<1, 1, 0, 2, 1>>
    /\ cyc = PyBool(TRUE)

(***************************************************************************)
(* SpecLimit: one LimitRule instance run alone on bounded inputs.          *)
(***************************************************************************)
MaxLimitLen == 6

LimitValues == {-4, -2, 0, 2, 4}
LimitStds == {0, 1, 2}

InitLimit ==
    /\ data \in SeqsUpTo(LimitValues, MaxLimitLen)
    /\ mean = 0
    /\ std \in LimitStds
    /\ pc = "start"
    /\ InitCommon

CallLimitRule ==
    /\ pc = "start"
    /\ \E rule \in {ControlLimitRule, WarningLimitRule, ZoneCLimitRule} :
          /\ self' = rule
          /\ issues' = Run(rule, data, mean, std)
    /\ fn' = "LimitRule.run"
    /\ pc' = "returned"
    /\ UNCHANGED <<data, mean, std, window_size, start, wins, cyc, rule_i>>

NextLimit == CallLimitRule

SpecLimit == InitLimit /\ [][NextLimit]_vars

\* number of detections in a result that equal det
Occurrences(res, det) == Cardinality({k \in DOMAIN res : res[k] = det})

\* positions strictly increasing along a result
Increasing(res) == \A k \in 1..(Len(res) - 1) : res[k][2] < res[k + 1][2]

NumAbove(window, limit) == Cardinality({j \in DOMAIN window : window[j] > limit})
NumBelow(window, limit) == Cardinality({j \in DOMAIN window : window[j] < limit})

\* the window data[idx : idx + w], for idx + w <= len(data)
WindowAt(idx, w) == [j \in 1..w |-> data[idx + j]]

C8_ZeroStd ==
    (Returned("LimitRule.run") /\ self = ControlLimitRule /\ std = 0) =>
        /\ \A i \in 1..Len(data) :
              Occurrences(issues, <<"ControlLimitRule", i>>) = IF data[i] # mean THEN 1 ELSE 0
        /\ Len(issues) = Cardinality({i \in 1..Len(data) : data[i] # mean})

C8_Witness ==
    /\ Returned("LimitRule.run")
    /\ self = ControlLimitRule
    /\ std = 0
    /\ data = <<0, 2, 0, -2>>
    /\ issues = <<<<"ControlLimitRule", 2>>, <<"ControlLimitRule", 4>>>>

(***************************************************************************)
(* SpecRun: RunRule run alone on bounded inputs.                           *)
(***************************************************************************)
MaxRunLen == 7

RunValues == {0, 1, 2}

InitRun ==
    /\ data \in SeqsUpTo(RunValues, MaxRunLen)
    /\ mean = 1
    /\ std = 1
    /\ pc = "start"
    /\ InitCommon

CallRunRule ==
    /\ pc = "start"
    /\ self' = RunRule
    /\ issues' = Run(RunRule, data, mean, std)
    /\ fn' = "RunRule.run"
    /\ pc' = "returned"
    /\ UNCHANGED <<data, mean, std, window_size, start, wins, cyc, rule_i>>

NextRun == CallRunRule

SpecRun == InitRun /\ [][NextRun]_vars

NonDecreasing(window) == \A j \in 1..(Len(window) - 1) : window[j + 1] >= window[j]
NonIncreasing(window) == \A j \in 1..(Len(window) - 1) : window[j + 1] <= window[j]

MaxLongLen == 30
MaxIrregular == 1

RegularStep(xs, d) ==
    IF Len(xs) = 1
    THEN d # 0
    ELSE IF xs[Len(xs)] >= xs[Len(xs) - 1] THEN d = -1 ELSE d = 1

WalkExtend(wk) ==
    {[xs |-> Append(wk.xs, wk.xs[Len(wk.xs)] + d),
      irr |-> wk.irr + (IF RegularStep(wk.xs, d) THEN 0 ELSE 1)] : d \in {-1, 0, 1}}

RECURSIVE Walks(_, _)
Walks(n, maxirr) ==
    IF n = 1
    THEN {[xs |-> <<0>>, irr |-> 0]}
    ELSE {wk \in UNION {WalkExtend(prev) : prev \in Walks(n - 1, maxirr)} :
             wk.irr <= maxirr}

WalkData(lens, maxirr) == UNION {{wk.xs : wk \in Walks(n, maxirr)} : n \in lens}

\* one window, two windows, the length-20 case, and lengths that hold two
\* separate runs of cyclic windows
LongLens == {15, 16, 20} \cup (29..MaxLongLen)

LongData == WalkData(LongLens, MaxIrregular)

InitCycle ==
    /\ data \in LongData
    /\ mean = 0
    /\ std = 2
    /\ pc = "start"
    /\ InitCommon

CallCycleRule ==
    /\ pc = "start"
    /\ self' = CycleRule
    /\ issues' = Run(CycleRule, data, mean, std)
    /\ fn' = "CycleRule.run"
    /\ pc' = "returned"
    /\ UNCHANGED <<data, mean, std, window_size, start, wins, cyc, rule_i>>

NextCycle == CallCycleRule

SpecCycle == InitCycle /\ [][NextCycle]_vars

\* the 15-point window with index idx alternates at every step
Cyclic(idx) == Alternates(WindowAt(idx, 15))

\* C6: CycleRule reports window idx, once, iff it is cyclic and window
\* idx - 1 is not cyclic (or idx = 0): one detection per maximal run of
\* consecutive cyclic windows, at the 1-based start of the run's first
\* window.  A strictly alternating sequence of length 20 yields exactly one
\* detection, at position 1.
C6_CycleRule ==
    Returned("CycleRule.run") =>
        /\ \A idx \in 0..(Len(data) - 15) :
              Occurrences(issues, <<"CycleRule", idx + 1>>) =
                  IF Cyclic(idx) /\ (idx = 0 \/ ~Cyclic(idx - 1)) THEN 1 ELSE 0
        /\ \A k \in DOMAIN issues :
              /\ issues[k][1] = "CycleRule"
              /\ issues[k][2] \in 1..(Len(data) - 14)
        /\ Increasing(issues)
        /\ (Len(data) = 20 /\ Alternates(data) => issues = <<<<"CycleRule", 1>>>>)

\* two maximal runs of cyclic windows, the second of more than one window
C6_Witness ==
    /\ Returned("CycleRule.run")
    /\ Len(issues) = 2
    /\ \E idx \in 1..(Len(data) - 15) : Cyclic(idx) /\ Cyclic(idx - 1)

(***************************************************************************)
(* Spec: src/app.py runs the default rule list over one input and          *)
(* concatenates the results.  Inputs are the short sequences over          *)
(* EngineValues and walks of 15..MaxEngineLongLen samples.                 *)
(***************************************************************************)
MaxEngineLen == 8
MaxEngineLongLen == 16
MaxEngineIrregular == 1

EngineValues == {-16, 0, 9}

InitEngine ==
    /\ \/ /\ data \in SeqsUpTo(EngineValues, MaxEngineLen)
          /\ std = 5
       \/ /\ data \in WalkData(15..MaxEngineLongLen, MaxEngineIrregular)
          /\ std \in {0, 2}
    /\ mean = 0
    /\ pc = "rules"
    /\ InitCommon

\* faulty variant: the new result is put in front
accumulate_prepend(acc, res) == res \o acc

\* issues = issues + rule.run(data, mean, std, verbose=False)
accumulate(acc, res) == acc \o res

RunNextRule ==
    /\ pc = "rules"
    /\ rule_i < Len(rules)
    /\ self' = At(rules, rule_i)
    /\ issues' = accumulate(issues, Run(At(rules, rule_i), data, mean, std))
    /\ rule_i' = rule_i + 1
    /\ fn' = "app"
    /\ UNCHANGED <<data, mean, std, pc, window_size, start, wins, cyc>>

\* the rule loop is exhausted; the detected events are printed
PrintIssues ==
    /\ pc = "rules"
    /\ rule_i = Len(rules)
    /\ pc' = "done"
    /\ UNCHANGED <<data, mean, std, fn, self, window_size, start, wins, cyc, issues, rule_i>>

Next == RunNextRule \/ PrintIssues

Spec == InitEngine /\ [][Next]_vars

RECURSIVE Concat(_, _)
Concat(blocks, k) == IF k = 0 THEN <<>> ELSE Concat(blocks, k - 1) \o blocks[k]

\* C1: the issues list is the concatenation, in rule-list order, of what
\* each rule returns when run alone, and inside each rule's block the
\* positions increase.
C1_Concatenation ==
    LET alone == [k \in 1..rule_i |-> Run(rules[k], data, mean, std)]
    IN  /\ issues = Concat(alone, rule_i)
        /\ \A k \in 1..rule_i : Increasing(alone[k])

\* a finished run with detections of two different rules, the later rule's
\* position being smaller than the earlier rule's
C1_Witness ==
    /\ pc = "done"
    /\ \E k \in 1..(Len(issues) - 1) :
          /\ issues[k][1] = "ControlLimitRule"
          /\ issues[k + 1][1] = "WarningLimitRule"
          /\ issues[k + 1][2] < issues[k][2]

\* C7: the default rule list holds each rule variant once, so the output
\* of a run holds no (rule_name, position) detection more than once.
C7_NoDuplicates ==
    pc = "done" => \A k \in DOMAIN issues : Occurrences(issues, issues[k]) = 1

====
